---- MODULE Spec2Model ----
(***************************************************************************)
(* The Veo 3.1 video client of grsai.com: the submit / poll / retry state  *)
(* machine (try_generate, submit_task, poll_result, http_post) and the     *)
(* download of the result, in both copies of the script:                   *)
(*   "veo3-1"  src/veo3-1/scripts/generate_video.py                        *)
(*   "veo3.1"  src/veo3.1/scripts/generate_video.py                        *)
(* Texts are sequences of one-character strings, so that formatting,       *)
(* lower-casing, substring search and strip are computed as Python         *)
(* computes them.                                                          *)
(***************************************************************************)
EXTENDS Integers, Sequences, FiniteSets, TLC

(***************************************************************************)
(* Bounds of the model.                                                    *)
(***************************************************************************)
\* try_generate is run with every max_retries in 0..MaxRetriesBound.
MaxRetriesBound == 6
\* A status query answers at once or after SlowResponse seconds.
SlowResponse == 300

(***************************************************************************)
(* Text: Python str operations on sequences of characters.                 *)
(***************************************************************************)
UpperCase ==
    << "A", "B", "C", "D", "E", "F", "G", "H", "I", "J", "K", "L", "M",
       "N", "O", "P", "Q", "R", "S", "T", "U", "V", "W", "X", "Y", "Z" >>
LowerCase ==
    << "a", "b", "c", "d", "e", "f", "g", "h", "i", "j", "k", "l", "m",
       "n", "o", "p", "q", "r", "s", "t", "u", "v", "w", "x", "y", "z" >>
Digits ==
    << "0", "1", "2", "3", "4", "5", "6", "7", "8", "9" >>

lower_char(c) ==
    IF \E i \in 1..Len(UpperCase) : UpperCase[i] = c
    THEN LowerCase[CHOOSE i \in 1..Len(UpperCase) : UpperCase[i] = c]
    ELSE c

\* str.lower()
str_lower(s) == [i \in 1..Len(s) |-> lower_char(s[i])]

\* kw in s
str_in(kw, s) ==
    \E i \in 1..(Len(s) - Len(kw) + 1) : SubSeq(s, i, i + Len(kw) - 1) = kw

IsSpace(c) == c \in {" ", "\t", "\n", "\r"}

\* str.strip()
str_strip(s) ==
    LET keep == {i \in 1..Len(s) : ~IsSpace(s[i])}
    IN  IF keep = {} THEN << >>
        ELSE SubSeq(s, CHOOSE i \in keep : \A j \in keep : i <= j,
                       CHOOSE i \in keep : \A j \in keep : j <= i)

\* str(n) of a natural number
RECURSIVE str_int(_)
str_int(n) ==
    IF n < 10 THEN << Digits[n + 1] >>
    ELSE str_int(n \div 10) \o << Digits[(n % 10) + 1] >>

Min(a, b) == IF a < b THEN a ELSE b

(***************************************************************************)
(* String literals of the two scripts and the texts the service sends.     *)
(***************************************************************************)
KW_moderation ==
    << "m", "o", "d", "e", "r", "a", "t", "i", "o", "n" >>
KW_nsfw ==
    << "n", "s", "f", "w" >>
KW_invalid ==
    << "i", "n", "v", "a", "l", "i", "d" >>
KW_unauthorized ==
    << "u", "n", "a", "u", "t", "h", "o", "r", "i", "z", "e", "d" >>
KW_forbidden ==
    << "f", "o", "r", "b", "i", "d", "d", "e", "n" >>
KW_not_exist ==
    << "n", "o", "t", " ", "e", "x", "i", "s", "t" >>
GRSAI_VIDEO_URL ==
    << "h", "t", "t", "p", "s", ":", "/", "/", "g", "r", "s", "a", "i", "a", "p",
       "i", ".", "c", "o", "m", "/", "v", "1", "/", "v", "i", "d", "e", "o", "/",
       "v", "e", "o" >>
GRSAI_RESULT_URL ==
    << "h", "t", "t", "p", "s", ":", "/", "/", "g", "r", "s", "a", "i", "a", "p",
       "i", ".", "c", "o", "m", "/", "v", "1", "/", "d", "r", "a", "w", "/", "r",
       "e", "s", "u", "l", "t" >>
\* a variant with the 401 message reworded
S_AuthFailed401 ==
    << "A", "u", "t", "h", "e", "n", "t", "i", "c", "a", "t", "i", "o", "n", " ",
       "f", "a", "i", "l", "e", "d", " ", "(", "H", "T", "T", "P", " ", "4", "0",
       "1", ")", ":", " ", "c", "h", "e", "c", "k", " ", "y", "o", "u", "r", " ",
       "A", "P", "I", " ", "k", "e", "y", ".", " ", "D", "e", "t", "a", "i", "l",
       "s", ":", " " >>

S_Unauthorized401 ==
    << "U", "n", "a", "u", "t", "h", "o", "r", "i", "z", "e", "d", " ", "(", "H",
       "T", "T", "P", " ", "4", "0", "1", ")", ":", " ", "c", "h", "e", "c", "k",
       " ", "y", "o", "u", "r", " ", "A", "P", "I", " ", "k", "e", "y", ".", " ",
       "D", "e", "t", "a", "i", "l", "s", ":", " " >>
S_RateLimited429 ==
    << "R", "a", "t", "e", " ", "l", "i", "m", "i", "t", "e", "d", " ", "(", "H",
       "T", "T", "P", " ", "4", "2", "9", ")", ":", " ", "t", "o", "o", " ", "m",
       "a", "n", "y", " ", "r", "e", "q", "u", "e", "s", "t", "s", ".", " ", "D",
       "e", "t", "a", "i", "l", "s", ":", " " >>
S_ServerErrorOpen ==
    << "S", "e", "r", "v", "e", "r", " ", "e", "r", "r", "o", "r", " ", "(", "H",
       "T", "T", "P", " " >>
S_ParenColon ==
    << ")", ":", " " >>
S_HTTP ==
    << "H", "T", "T", "P", " " >>
S_Colon ==
    << ":", " " >>
S_NetworkError ==
    << "N", "e", "t", "w", "o", "r", "k", " ", "e", "r", "r", "o", "r", " ", "c",
       "o", "n", "n", "e", "c", "t", "i", "n", "g", " ", "t", "o", " " >>
S_RequestTo ==
    << "R", "e", "q", "u", "e", "s", "t", " ", "t", "o", " " >>
S_TimedOutAfter ==
    << " ", "t", "i", "m", "e", "d", " ", "o", "u", "t", " ", "a", "f", "t", "e",
       "r", " " >>
S_s ==
    << "s" >>
S_UnknownErrorFromAPI ==
    << "U", "n", "k", "n", "o", "w", "n", " ", "e", "r", "r", "o", "r", " ", "f",
       "r", "o", "m", " ", "A", "P", "I" >>
S_UnknownError ==
    << "U", "n", "k", "n", "o", "w", "n", " ", "e", "r", "r", "o", "r" >>
S_NoTaskID ==
    << "N", "o", " ", "t", "a", "s", "k", " ", "I", "D", " ", "i", "n", " ", "r",
       "e", "s", "p", "o", "n", "s", "e", ":", " " >>
S_ReprNoId ==
    << "{", "'", "c", "o", "d", "e", "'", ":", " ", "0", ",", " ", "'", "d", "a",
       "t", "a", "'", ":", " ", "{", "}", "}" >>
S_ResultAPIError ==
    << "R", "e", "s", "u", "l", "t", " ", "A", "P", "I", " ", "e", "r", "r", "o",
       "r", ":", " " >>
S_None ==
    << "N", "o", "n", "e" >>
S_GenFailedUnknown ==
    << "G", "e", "n", "e", "r", "a", "t", "i", "o", "n", " ", "f", "a", "i", "l",
       "e", "d", " ", "w", "i", "t", "h", " ", "u", "n", "k", "n", "o", "w", "n",
       " ", "r", "e", "a", "s", "o", "n" >>
S_UnknownFailure ==
    << "u", "n", "k", "n", "o", "w", "n", " ", "f", "a", "i", "l", "u", "r", "e" >>
S_GenTimedOut ==
    << "G", "e", "n", "e", "r", "a", "t", "i", "o", "n", " ", "t", "i", "m", "e",
       "d", " ", "o", "u", "t", " ", "a", "f", "t", "e", "r", " " >>
S_TaskOpen ==
    << "s", " ", "(", "t", "a", "s", "k", ":", " " >>
S_ParenClose ==
    << ")" >>
S_NoAttemptsMade ==
    << "N", "o", " ", "a", "t", "t", "e", "m", "p", "t", "s", " ", "m", "a", "d",
       "e" >>
S_NoAttemptsMadeLower ==
    << "n", "o", " ", "a", "t", "t", "e", "m", "p", "t", "s", " ", "m", "a", "d",
       "e" >>
S_HTTPError ==
    << "H", "T", "T", "P", " ", "E", "r", "r", "o", "r", " " >>
S_UrlopenError ==
    << "<", "u", "r", "l", "o", "p", "e", "n", " ", "e", "r", "r", "o", "r", " " >>
S_Gt ==
    << ">" >>
S_TimedOut ==
    << "t", "i", "m", "e", "d", " ", "o", "u", "t" >>
S_Space ==
    << " " >>
S_id ==
    << "'", "i", "d", "'" >>
T_busy ==
    << "b", "u", "s", "y" >>
T_NSFW ==
    << "N", "S", "F", "W", " ", "c", "o", "n", "t", "e", "n", "t" >>
T_moderation ==
    << "r", "e", "q", "u", "e", "s", "t", " ", "r", "e", "j", "e", "c", "t", "e",
       "d", ":", " ", "m", "o", "d", "e", "r", "a", "t", "i", "o", "n" >>
T_not_exist ==
    << "T", "a", "s", "k", " ", "d", "o", "e", "s", " ", "n", "o", "t", " ", "e",
       "x", "i", "s", "t" >>
T_padded ==
    << " ", "q", "u", "o", "t", "a", " " >>
R_refused ==
    << "[", "E", "r", "r", "n", "o", " ", "1", "1", "1", "]", " ", "C", "o", "n",
       "n", "e", "c", "t", "i", "o", "n", " ", "r", "e", "f", "u", "s", "e", "d" >>
R_invalid ==
    << "[", "E", "r", "r", "n", "o", " ", "2", "2", "]", " ", "I", "n", "v", "a",
       "l", "i", "d", " ", "a", "r", "g", "u", "m", "e", "n", "t" >>
\* An opaque task handle.  This one happens to spell a permanent keyword:
\* the case that tells the TimeoutError clause from the keyword test.
ID_T1 ==
    << "T", "1", "-", "i", "n", "v", "a", "l", "i", "d" >>
PH_Unauthorized ==
    << "U", "n", "a", "u", "t", "h", "o", "r", "i", "z", "e", "d" >>
PH_TooManyRequests ==
    << "T", "o", "o", " ", "M", "a", "n", "y", " ", "R", "e", "q", "u", "e", "s",
       "t", "s" >>
PH_InternalServerError ==
    << "I", "n", "t", "e", "r", "n", "a", "l", " ", "S", "e", "r", "v", "e", "r",
       " ", "E", "r", "r", "o", "r" >>
PH_NotFound ==
    << "N", "o", "t", " ", "F", "o", "u", "n", "d" >>
S_NetErrDownload ==
    << "N", "e", "t", "w", "o", "r", "k", " ", "e", "r", "r", "o", "r", " ", "d",
       "o", "w", "n", "l", "o", "a", "d", "i", "n", "g", " ", "v", "i", "d", "e",
       "o", ":", " " >>
S_DownloadTimedOut ==
    << "V", "i", "d", "e", "o", " ", "d", "o", "w", "n", "l", "o", "a", "d", " ",
       "t", "i", "m", "e", "d", " ", "o", "u", "t", " ", "a", "f", "t", "e", "r",
       " " >>
R_reset ==
    << "[", "E", "r", "r", "n", "o", " ", "1", "0", "4", "]", " ", "C", "o", "n",
       "n", "e", "c", "t", "i", "o", "n", " ", "r", "e", "s", "e", "t", " ", "b",
       "y", " ", "p", "e", "e", "r" >>
S_IncompleteRead ==
    << "I", "n", "c", "o", "m", "p", "l", "e", "t", "e", "R", "e", "a", "d" >>
S_results ==
    << "'", "r", "e", "s", "u", "l", "t", "s", "'" >>

(***************************************************************************)
(* Program constants.                                                      *)
(***************************************************************************)
READ_TIMEOUT == 45
URLOPEN_TIMEOUT == 30
POLL_INTERVAL == 5
POLL_TIMEOUT == 600
InitialDelay == 5
DelayCap == 60

PERMANENT_KEYWORDS ==
    << KW_moderation, KW_nsfw, KW_invalid, KW_unauthorized, KW_forbidden,
       KW_not_exist >>

\* TRANSIENT_KEYWORDS: defined next to PERMANENT_KEYWORDS, used by no function
TK_timeout ==
    << "t", "i", "m", "e", "o", "u", "t" >>
TK_network ==
    << "n", "e", "t", "w", "o", "r", "k" >>
TK_connection ==
    << "c", "o", "n", "n", "e", "c", "t", "i", "o", "n" >>
TK_unavailable ==
    << "u", "n", "a", "v", "a", "i", "l", "a", "b", "l", "e" >>
TK_overload ==
    << "o", "v", "e", "r", "l", "o", "a", "d" >>
TK_retry ==
    << "r", "e", "t", "r", "y" >>
TK_rate_limit ==
    << "r", "a", "t", "e", " ", "l", "i", "m", "i", "t" >>
TK_too_many ==
    << "t", "o", "o", " ", "m", "a", "n", "y" >>
TRANSIENT_KEYWORDS ==
    << TK_timeout, TK_network, TK_connection, TK_unavailable, TK_overload,
       TK_retry, TK_rate_limit, TK_too_many >>

Copies == {"veo3-1", "veo3.1"}

(***************************************************************************)
(* Values: exceptions, JSON fields that may be missing, result payloads.   *)
(***************************************************************************)
\* a key missing from a JSON object (dict.get gives its default)
NoText == << "<absent>" >>
NoUrl == "<absent>"

\* An exception: its Python class, str(e), and (for the properties only)
\* the place that raised it.
Exc(type, msg, kind) == [type |-> type, msg |-> msg, kind |-> kind]
NoExc == Exc("none", << >>, "none")

Raise(e) == [raised |-> TRUE, exc |-> e, value |-> NoText]
Return(v) == [raised |-> FALSE, exc |-> NoExc, value |-> v]

\* dict.get(key, default)
dict_get(v, default) == IF v = NoText THEN default ELSE v

\* f"{v}" of a dict.get(key) that may be None
fmt_optional(v) == IF v = NoText THEN S_None ELSE v

ReasonPhrase(status) ==
    CASE status = 401 -> PH_Unauthorized
      [] status = 429 -> PH_TooManyRequests
      [] status = 404 -> PH_NotFound
      [] OTHER -> PH_InternalServerError

(***************************************************************************)
(* http_post: what one POST gives for each thing the transport can do.     *)
(*   o.t = "response"   : a 2xx answer whose JSON body is o.json           *)
(*   o.t = "http_error" : urllib raises HTTPError(o.status), body o.body   *)
(*   o.t = "url_error"  : urllib raises URLError(o.reason)                 *)
(*   o.t = "timeout"    : the socket read raises TimeoutError              *)
(***************************************************************************)
http_post_new(url, o) ==
    CASE o.t = "response" -> Return(o.json)
      [] o.t = "http_error" ->
            IF o.status = 401
            THEN Raise(Exc("RuntimeError", S_Unauthorized401 \o o.body, "http401"))
            ELSE IF o.status = 429
            THEN Raise(Exc("RuntimeError", S_RateLimited429 \o o.body, "http429"))
            ELSE IF o.status >= 500
            THEN Raise(Exc("RuntimeError",
                           S_ServerErrorOpen \o str_int(o.status)
                               \o S_ParenColon \o o.body, "http5xx"))
            ELSE Raise(Exc("RuntimeError",
                           S_HTTP \o str_int(o.status) \o S_Colon \o o.body,
                           "http4xx"))
      [] o.t = "url_error" ->
            Raise(Exc("RuntimeError",
                      S_NetworkError \o url \o S_Colon \o o.reason, "url_error"))
      [] OTHER ->
            Raise(Exc("TimeoutError",
                      S_RequestTo \o url \o S_TimedOutAfter
                          \o str_int(READ_TIMEOUT) \o S_s, "request_timeout"))

\* the older copy catches nothing: urllib's exceptions pass through
http_post_old(url, o) ==
    CASE o.t = "response" -> Return(o.json)
      [] o.t = "http_error" ->
            Raise(Exc("HTTPError",
                      S_HTTPError \o str_int(o.status) \o S_Colon
                          \o ReasonPhrase(o.status),
                      IF o.status = 401 THEN "http401"
                      ELSE IF o.status = 429 THEN "http429"
                      ELSE IF o.status >= 500 THEN "http5xx" ELSE "http4xx"))
      [] o.t = "url_error" ->
            Raise(Exc("URLError", S_UrlopenError \o o.reason \o S_Gt, "url_error"))
      [] OTHER -> Raise(Exc("TimeoutError", S_TimedOut, "request_timeout"))

http_post(c, url, o) ==
    IF c = "veo3-1" THEN http_post_new(url, o) ELSE http_post_old(url, o)

\* how long the call blocks before a socket read times out
read_timeout(c) == IF c = "veo3-1" THEN READ_TIMEOUT ELSE URLOPEN_TIMEOUT

\* a variant that forgets msg.lower()
is_permanent_error_case_sensitive(msg) ==
    \E k \in 1..Len(PERMANENT_KEYWORDS) : str_in(PERMANENT_KEYWORDS[k], msg)

is_permanent_error(msg) ==
    LET msg_lower == str_lower(msg)
    IN  \E k \in 1..Len(PERMANENT_KEYWORDS) :
            str_in(PERMANENT_KEYWORDS[k], msg_lower)

(***************************************************************************)
(* submit_task                                                             *)
(***************************************************************************)
submit_task(c, o) ==
    LET r == http_post(c, GRSAI_VIDEO_URL, o)
    IN  IF r.raised THEN r
        ELSE LET response == r.value
             IN  IF response.code # 0
                 THEN Raise(Exc("RuntimeError",
                                dict_get(response.msg,
                                         IF c = "veo3-1"
                                         THEN S_UnknownErrorFromAPI
                                         ELSE S_UnknownError),
                                "remote_rejected"))
                 ELSE IF response.data.id # NoText
                 THEN Return(response.data.id)
                 ELSE IF c = "veo3-1"
                 THEN Raise(Exc("RuntimeError", S_NoTaskID \o S_ReprNoId,
                                "no_task_id"))
                 ELSE Raise(Exc("KeyError", S_id, "no_task_id"))

(***************************************************************************)
(* poll_result: one turn of its loop body, up to the sleep.                *)
(***************************************************************************)
NoData ==
    [id |-> NoText, status |-> "none", progress |-> 0, url |-> NoUrl,
     results_url |-> NoUrl,
     credits_cost |-> 0, failure_reason |-> NoText, error |-> NoText]

\* a variant that forgets .strip()
failure_text_unstripped(c, data) ==
    LET reason == dict_get(data.failure_reason, << >>) \o S_Space
                      \o dict_get(data.error, << >>)
    IN  IF reason # << >> THEN reason
        ELSE IF c = "veo3-1" THEN S_GenFailedUnknown ELSE S_UnknownFailure

failure_text(c, data) ==
    LET reason == str_strip(dict_get(data.failure_reason, << >>) \o S_Space
                                \o dict_get(data.error, << >>))
    IN  IF reason # << >> THEN reason
        ELSE IF c = "veo3-1" THEN S_GenFailedUnknown ELSE S_UnknownFailure

\* "return" data, "raise" exc, or "sleep" and query again; status is the
\* status the query read ("none" when it raised before reading one)
Answer(act, exc, data, status) ==
    [act |-> act, exc |-> exc, data |-> data, status |-> status]

\* a variant that returns on every status but "failed"
poll_query_returns_unless_failed(c, o) ==
    LET r == http_post(c, GRSAI_RESULT_URL, o)
    IN  IF r.raised THEN Answer("raise", r.exc, NoData, "none")
        ELSE IF r.value.code # 0
        THEN Answer("raise",
                    Exc("RuntimeError",
                        S_ResultAPIError \o fmt_optional(r.value.msg),
                        "remote_rejected"),
                    NoData, "none")
        ELSE IF r.value.data.status = "failed"
        THEN Answer("raise",
                    Exc("RuntimeError", failure_text(c, r.value.data),
                        "generation_failed"),
                    NoData, r.value.data.status)
        ELSE Answer("return", NoExc, r.value.data, r.value.data.status)

\* a variant that returns the payload without its cost
poll_query_drops_cost(c, o) ==
    LET r == http_post(c, GRSAI_RESULT_URL, o)
    IN  IF r.raised THEN Answer("raise", r.exc, NoData, "none")
        ELSE IF r.value.code # 0
        THEN Answer("raise",
                    Exc("RuntimeError",
                        S_ResultAPIError \o fmt_optional(r.value.msg),
                        "remote_rejected"),
                    NoData, "none")
        ELSE IF r.value.data.status = "succeeded"
        THEN Answer("return", NoExc,
                    [r.value.data EXCEPT !.credits_cost = 0],
                    r.value.data.status)
        ELSE IF r.value.data.status = "failed"
        THEN Answer("raise",
                    Exc("RuntimeError", failure_text(c, r.value.data),
                        "generation_failed"),
                    NoData, r.value.data.status)
        ELSE Answer("sleep", NoExc, NoData, r.value.data.status)

\* a variant that takes a network error on a query for "not ready yet"
poll_query_absorbs_network_errors(c, o) ==
    LET r == http_post(c, GRSAI_RESULT_URL, o)
    IN  IF r.raised
        THEN IF r.exc.kind = "url_error"
             THEN Answer("sleep", NoExc, NoData, "none")
             ELSE Answer("raise", r.exc, NoData, "none")
        ELSE IF r.value.code # 0
        THEN Answer("raise",
                    Exc("RuntimeError",
                        S_ResultAPIError \o fmt_optional(r.value.msg),
                        "remote_rejected"),
                    NoData, "none")
        ELSE IF r.value.data.status = "succeeded"
        THEN Answer("return", NoExc, r.value.data, r.value.data.status)
        ELSE IF r.value.data.status = "failed"
        THEN Answer("raise",
                    Exc("RuntimeError", failure_text(c, r.value.data),
                        "generation_failed"),
                    NoData, r.value.data.status)
        ELSE Answer("sleep", NoExc, NoData, r.value.data.status)

poll_query(c, o) ==
    LET r == http_post(c, GRSAI_RESULT_URL, o)
    IN  IF r.raised THEN Answer("raise", r.exc, NoData, "none")
        ELSE LET result == r.value
                 data == result.data
             IN  IF result.code # 0
                 THEN Answer("raise",
                             Exc("RuntimeError",
                                 S_ResultAPIError \o fmt_optional(result.msg),
                                 "remote_rejected"),
                             NoData, "none")
                 ELSE IF data.status = "succeeded"
                 THEN Answer("return", NoExc, data, data.status)
                 ELSE IF data.status = "failed"
                 THEN Answer("raise",
                             Exc("RuntimeError", failure_text(c, data),
                                 "generation_failed"),
                             NoData, data.status)
                 ELSE Answer("sleep", NoExc, NoData, data.status)

poll_timeout_error(c, task_id) ==
    Exc("TimeoutError",
        IF c = "veo3-1"
        THEN S_GenTimedOut \o str_int(POLL_TIMEOUT) \o S_TaskOpen \o task_id
                 \o S_ParenClose
        ELSE S_GenTimedOut \o str_int(POLL_TIMEOUT) \o S_s,
        "poll_timeout")

(***************************************************************************)
(* The download: the connection and the reads on it.                       *)
(***************************************************************************)
\* the largest body the server holds
MaxBody == 4
\* chunk_size = 1024 * 64, scaled to the bodies of the model
chunk_size == 2
DOWNLOAD_TIMEOUT == 300

NoKey == "<none>"
Keys == {NoKey, "", "KEY"}
Running == -1
OldFile == << 0 >>

\* a body of n distinct bytes
Body(n) == [i \in 1..n |-> i]

Endings == {"eof", "reset", "timeout"}

\* A connection delivers the first `delivered` bytes of `body` and then
\* ends: the peer closes ("eof"), resets, or goes silent ("timeout").  With a
\* Content-Length the peer may close before the whole body was sent; without
\* one the body is what was sent before the close.
Connection(body, length_known, delivered, ending) ==
    [body |-> body, length_known |-> length_known, delivered |-> delivered,
     ending |-> ending]
NoConn == Connection(<< >>, FALSE, 0, "none")

Conns ==
    {c \in [body : {Body(n) : n \in 0..MaxBody}, length_known : BOOLEAN,
            delivered : 0..MaxBody, ending : Endings] :
        /\ c.delivered <= Len(c.body)
        /\ ~c.length_known => c.delivered = Len(c.body)
        /\ (c.length_known /\ c.delivered = Len(c.body)) => c.ending = "eof"}

\* what ends a read once the delivered bytes are used up
end_of_stream(c) ==
    CASE c.ending = "reset" ->
            Raise(Exc("ConnectionResetError", R_reset, "reset"))
      [] c.ending = "timeout" ->
            Raise(Exc("TimeoutError", S_TimedOut, "timeout"))
      [] OTHER -> Return(<< >>)

\* HTTPResponse.read(amt): the next amt bytes, fewer at the end of the
\* stream, b"" once the stream or the announced length is used up
resp_read(c, off, amt) ==
    IF c.length_known /\ off = Len(c.body) THEN Return(<< >>)
    ELSE IF off < c.delivered
    THEN Return(SubSeq(c.body, off + 1, Min(off + amt, c.delivered)))
    ELSE end_of_stream(c)

\* HTTPResponse.read(): the whole body; with a Content-Length a short body
\* is an IncompleteRead
resp_read_all(c) ==
    IF c.delivered = Len(c.body) /\ (c.length_known \/ c.ending = "eof")
    THEN Return(c.body)
    ELSE IF c.ending = "eof"
    THEN Raise(Exc("IncompleteRead", S_IncompleteRead, "incomplete"))
    ELSE end_of_stream(c)

\* b"".join(chunks)
RECURSIVE join(_)
join(cs) == IF cs = << >> THEN << >> ELSE Head(cs) \o join(Tail(cs))

\* what urlopen of the video URL can raise
OpenErrors ==
    {Exc("HTTPError", PH_NotFound, "http4xx"),
     Exc("URLError", R_refused, "url_error"),
     Exc("TimeoutError", S_TimedOut, "timeout")}

\* the except clauses of download_video (the newer copy); the older copy
\* has none.  For a URLError e.msg stands for e.reason.
download_error(c, e) ==
    IF c # "veo3-1" THEN e
    ELSE IF e.type \in {"HTTPError", "URLError"}
    THEN Exc("RuntimeError", S_NetErrDownload \o e.msg, "download_failed")
    ELSE IF e.type = "TimeoutError"
    THEN Exc("RuntimeError",
             S_DownloadTimedOut \o str_int(DOWNLOAD_TIMEOUT) \o S_s,
             "download_failed")
    ELSE e

(***************************************************************************)
(* The remote service and the transport: what one call can come back with. *)
(***************************************************************************)
Json(code, msg, data) == [code |-> code, msg |-> msg, data |-> data]
NoJson == Json(0, NoText, NoData)

Response(json) ==
    [t |-> "response", status |-> 200, body |-> << >>, reason |-> << >>,
     json |-> json]

HttpStatuses == {401, 429, 500, 404}
BodyTexts == {T_busy, T_NSFW}
ReasonTexts == {R_refused, R_invalid}

TransportFaults ==
    {[t |-> "http_error", status |-> s, body |-> b, reason |-> << >>,
      json |-> NoJson] : s \in HttpStatuses, b \in BodyTexts}
    \cup {[t |-> "url_error", status |-> 0, body |-> << >>, reason |-> r,
           json |-> NoJson] : r \in ReasonTexts}
    \cup {[t |-> "timeout", status |-> 0, body |-> << >>, reason |-> << >>,
           json |-> NoJson]}

\* the handle the service issues for the n-th submission: T1-invalid,
\* T2-invalid, ...
TaskId(n) == SubSeq(ID_T1, 1, 1) \o str_int(n) \o SubSeq(ID_T1, 3, Len(ID_T1))

\* what the service can answer to the n-th submission
SubmitResponses(n) ==
    {Response(Json(0, NoText, [NoData EXCEPT !.id = i])) :
        i \in {TaskId(n), NoText}}
    \cup {Response(Json(1, m, NoData)) : m \in {T_busy, T_moderation, NoText}}

SucceededPayloads ==
    {[NoData EXCEPT !.status = "succeeded", !.progress = 100,
                    !.url = "https://x/video.mp4", !.credits_cost = 5],
     [NoData EXCEPT !.status = "succeeded", !.progress = 100,
                    !.results_url = "https://x/nested.mp4", !.credits_cost = 7],
     [NoData EXCEPT !.status = "succeeded", !.progress = 100]}

FailedPayloads ==
    {[NoData EXCEPT !.status = "failed", !.failure_reason = f, !.error = e] :
        <<f, e>> \in {<<NoText, NoText>>, <<T_busy, NoText>>,
                      <<NoText, T_NSFW>>, <<T_padded, NoText>>,
                      <<T_busy, T_padded>>}}

PendingPayloads ==
    {[NoData EXCEPT !.status = "pending", !.progress = 40],
     [NoData EXCEPT !.status = "running", !.progress = 60]}

PollResponses ==
    {Response(Json(0, NoText, d)) :
        d \in SucceededPayloads \cup FailedPayloads \cup PendingPayloads}
    \cup {Response(Json(1, m, NoData)) : m \in {T_busy, T_not_exist}}

SubmitOutcomes(n) == SubmitResponses(n) \cup TransportFaults
PollOutcomes == PollResponses \cup TransportFaults

\* how long a call that does not time out may take
ResponseTimes == {0, SlowResponse}

\* what one status query can come to, per copy
PollAnswersNew == {poll_query("veo3-1", o) : o \in PollOutcomes}
PollAnswersOld == {poll_query("veo3.1", o) : o \in PollOutcomes}
PollAnswers(c) == IF c = "veo3-1" THEN PollAnswersNew ELSE PollAnswersOld

\* how long the query took: a timed-out read lasts the socket timeout
query_time(c, q, d) ==
    IF q.act = "raise" /\ q.exc.kind = "request_timeout"
    THEN read_timeout(c) ELSE d

(***************************************************************************)
(* State.                                                                  *)
(***************************************************************************)
VARIABLES
    copy,         \* which script runs
    max_retries,  \* try_generate's parameter
    pc,           \* where the run is
    attempt,      \* the for loop's variable (0 before the first turn)
    delay,        \* the backoff delay
    last_error,   \* try_generate's last_error
    cur,          \* the exception being handled
    task_id,      \* the handle poll_result queries
    now,          \* time.time(), counted from the start of the attempt
    deadline,     \* poll_result's deadline
    queries,      \* status queries made by the running poll_result (the
                  \* Gemini client: http_post calls of query_with_retry)
    status,       \* poll_result's status: what its last query read
    poll_end,     \* how the last poll_result ended: before or after its
                  \* deadline ("none": the attempt did not poll)
    submits,      \* submit_task calls made so far
    sleeps,       \* the backoff sleeps made so far, in order
    result,       \* what try_generate returned
    raised,       \* what try_generate raised
    api_key,      \* main's api_key
    video_url,    \* main's video_url
    conn,         \* the download connection: what the server will deliver
    offset,       \* bytes of the body read so far
    chunks,       \* download_video's chunks
    downloaded,   \* download_video's downloaded
    total,        \* download_video's total
    dl_raised,    \* what the download raised
    file,         \* the content of output_path
    exit_code,    \* the process's exit status
    traceback     \* the uncaught exception that ended the process

tryvars ==
    << attempt, delay, last_error, cur, task_id, now, deadline, queries, status,
       poll_end, submits, sleeps, result, raised >>

dlvars == << video_url, conn, offset, chunks, downloaded, total, dl_raised, file >>

vars ==
    << copy, max_retries, pc, api_key, tryvars, dlvars, exit_code, traceback >>

Init ==
    /\ copy \in Copies
    /\ max_retries \in 0..MaxRetriesBound
    /\ pc = "main"
    /\ api_key = NoKey
    /\ video_url = NoUrl
    /\ conn = NoConn
    /\ offset = 0
    /\ chunks = << >>
    /\ downloaded = 0
    /\ total = 0
    /\ dl_raised = NoExc
    /\ file = OldFile
    /\ exit_code = Running
    /\ traceback = NoExc
    /\ attempt = 0
    /\ delay = InitialDelay
    /\ last_error = Exc("RuntimeError",
                        IF copy = "veo3-1" THEN S_NoAttemptsMade
                        ELSE S_NoAttemptsMadeLower, "no_attempts")
    /\ cur = NoExc
    /\ task_id = NoText
    /\ now = 0
    /\ deadline = 0
    /\ queries = 0
    /\ status = "none"
    /\ poll_end = "none"
    /\ submits = 0
    /\ sleeps = << >>
    /\ result = NoData
    /\ raised = NoExc

(***************************************************************************)
(* try_generate                                                            *)
(***************************************************************************)
\* a variant with the range one too long
MoreAttempts_off_by_one(a, m) == a <= m

\* a variant that never runs out of attempts
MoreAttempts_unbounded(a, m) == TRUE

\* for attempt in range(1, max_retries + 1): ... ; raise last_error
MoreAttempts(a, m) == a < m

ForNext ==
    /\ pc = "for"
    /\ IF MoreAttempts(attempt, max_retries)
       THEN /\ attempt' = attempt + 1
            /\ pc' = "submit"
            /\ UNCHANGED raised
       ELSE /\ pc' = "raised"
            /\ raised' = last_error
            /\ UNCHANGED attempt
    /\ UNCHANGED << copy, max_retries, delay, last_error, cur, task_id, now,
                    deadline, queries, status, poll_end, submits, sleeps,
                    result >>
    /\ UNCHANGED << api_key, dlvars, exit_code, traceback >>

\* a variant in which submit_task submits a second time when the first
\* call met a transport fault
SubmitTask_resubmits ==
    /\ pc = "submit"
    /\ \E o1 \in SubmitOutcomes(submits + 1), o2 \in SubmitOutcomes(submits + 2) :
        LET again == o1.t # "response"
            r == submit_task(copy, IF again THEN o2 ELSE o1)
        IN  /\ IF r.raised
               THEN /\ cur' = r.exc
                    /\ pc' = "except"
                    /\ UNCHANGED << task_id, deadline >>
               ELSE /\ task_id' = r.value
                    /\ deadline' = now + POLL_TIMEOUT
                    /\ pc' = "poll"
                    /\ UNCHANGED cur
            /\ submits' = submits + (IF again THEN 2 ELSE 1)
    /\ UNCHANGED << copy, max_retries, attempt, delay, last_error, now,
                    queries, status, poll_end, sleeps, result, raised >>
    /\ UNCHANGED << api_key, dlvars, exit_code, traceback >>

\* task_id = submit_task(payload, api_key), then poll_result's first line
SubmitTask ==
    /\ pc = "submit"
    /\ \E o \in SubmitOutcomes(submits + 1) :
        LET r == submit_task(copy, o)
        IN  IF r.raised
            THEN /\ cur' = r.exc
                 /\ pc' = "except"
                 /\ UNCHANGED << task_id, deadline >>
            ELSE /\ task_id' = r.value
                 /\ deadline' = now + POLL_TIMEOUT
                 /\ pc' = "poll"
                 /\ UNCHANGED cur
    /\ submits' = submits + 1
    /\ UNCHANGED << copy, max_retries, attempt, delay, last_error, now,
                    queries, status, poll_end, sleeps, result, raised >>
    /\ UNCHANGED << api_key, dlvars, exit_code, traceback >>

\* a variant that makes one more query at the deadline itself
BeforeDeadline_inclusive(t, d) == t <= d

\* while time.time() < deadline
BeforeDeadline(t, d) == t < d

\* poll_result is left at time t: its locals are gone
PollExit(t) ==
    /\ poll_end' = IF t >= deadline THEN "after_deadline" ELSE "before_deadline"
    /\ task_id' = NoText
    /\ now' = 0
    /\ deadline' = 0
    /\ queries' = 0

\* the handle a status query sends: {"id": task_id}
queried_id == task_id

\* one status query of poll_result
PollQuery ==
    /\ pc = "poll"
    /\ BeforeDeadline(now, deadline)
    /\ \E q \in PollAnswers(copy), d \in ResponseTimes :
        LET end == now + query_time(copy, q, d)
        IN  /\ status' = q.status
            /\ CASE q.act = "return" ->
                        /\ result' = q.data
                        /\ pc' = "returned"
                        /\ PollExit(end)
                        /\ UNCHANGED cur
                 [] q.act = "raise" ->
                        /\ cur' = q.exc
                        /\ pc' = "except"
                        /\ PollExit(end)
                        /\ UNCHANGED result
                 [] OTHER ->
                        /\ pc' = "poll_sleep"
                        /\ now' = end
                        /\ queries' = queries + 1
                        /\ UNCHANGED << cur, result, task_id, deadline,
                                        poll_end >>
    /\ UNCHANGED << copy, max_retries, attempt, delay, last_error, submits,
                    sleeps, raised >>
    /\ UNCHANGED << api_key, dlvars, exit_code, traceback >>

\* a variant that polls again after one time unit
PollSleep_short ==
    /\ pc = "poll_sleep"
    /\ now' = now + 1
    /\ status' = "none"
    /\ pc' = "poll"
    /\ UNCHANGED << copy, max_retries, attempt, delay, last_error, cur,
                    task_id, deadline, queries, poll_end, submits, sleeps,
                    result, raised >>
    /\ UNCHANGED << api_key, dlvars, exit_code, traceback >>

\* time.sleep(POLL_INTERVAL)
PollSleep ==
    /\ pc = "poll_sleep"
    /\ now' = now + POLL_INTERVAL
    /\ status' = "none"
    /\ pc' = "poll"
    /\ UNCHANGED << copy, max_retries, attempt, delay, last_error, cur,
                    task_id, deadline, queries, poll_end, submits, sleeps,
                    result, raised >>
    /\ UNCHANGED << api_key, dlvars, exit_code, traceback >>

\* the loop test fails: raise TimeoutError(...)
PollDeadline ==
    /\ pc = "poll"
    /\ ~BeforeDeadline(now, deadline)
    /\ cur' = poll_timeout_error(copy, task_id)
    /\ pc' = "except"
    /\ PollExit(now)
    /\ UNCHANGED status
    /\ UNCHANGED << copy, max_retries, attempt, delay, last_error, submits,
                    sleeps, result, raised >>
    /\ UNCHANGED << api_key, dlvars, exit_code, traceback >>

\* a variant that puts the keyword test on a TimeoutError as well
handler_keywords_on_timeout(e) ==
    IF e.type \in {"TimeoutError", "RuntimeError"}
    THEN IF is_permanent_error(e.msg) THEN "reraise" ELSE "retry"
    ELSE "escape"

\* a variant that retries whatever the message says
handler_retries_permanent(e) ==
    IF e.type \in {"TimeoutError", "RuntimeError"} THEN "retry" ELSE "escape"

\* a variant that retries network and rate-limit errors without looking at
\* their message
handler_trusts_error_kind(e) ==
    IF e.type = "TimeoutError" THEN "retry"
    ELSE IF e.type = "RuntimeError"
    THEN IF e.kind \in {"url_error", "http429"} THEN "retry"
         ELSE IF is_permanent_error(e.msg) THEN "reraise" ELSE "retry"
    ELSE "escape"

\* a variant that retries a RuntimeError only when its message holds a
\* transient keyword
handler_retries_transient_keywords_only(e) ==
    IF e.type = "TimeoutError" THEN "retry"
    ELSE IF e.type = "RuntimeError"
    THEN IF /\ ~is_permanent_error(e.msg)
            /\ \E k \in 1..Len(TRANSIENT_KEYWORDS) :
                   str_in(TRANSIENT_KEYWORDS[k], str_lower(e.msg))
         THEN "retry" ELSE "reraise"
    ELSE "escape"

\* the except clauses of try_generate: "retry", "reraise" (permanent), or
\* "escape" for an exception no clause names
handler(e) ==
    IF e.type = "TimeoutError" THEN "retry"
    ELSE IF e.type = "RuntimeError"
    THEN IF is_permanent_error(e.msg) THEN "reraise" ELSE "retry"
    ELSE "escape"

Except ==
    /\ pc = "except"
    /\ LET h == handler(cur)
       IN  /\ last_error' = IF h = "escape" THEN last_error ELSE cur
           /\ IF h = "retry"
              THEN /\ pc' = "backoff"
                   /\ UNCHANGED raised
              ELSE /\ pc' = "raised"
                   /\ raised' = cur
    /\ cur' = NoExc
    /\ status' = "none"
    /\ poll_end' = "none"
    /\ UNCHANGED << copy, max_retries, attempt, delay, task_id, now, deadline,
                    queries, submits, sleeps, result >>
    /\ UNCHANGED << api_key, dlvars, exit_code, traceback >>

\* a variant that forgets the cap
next_delay_uncapped(d) == d * 2

\* delay = min(delay * 2, 60)
next_delay(d) == Min(d * 2, DelayCap)

\* a variant that sleeps after the last attempt as well
WillRetry_sleeps_at_last(a, m) == a <= m

\* if attempt < max_retries:
WillRetry(a, m) == a < m

\* if attempt < max_retries: time.sleep(delay); delay = min(delay * 2, 60)
Backoff ==
    /\ pc = "backoff"
    /\ IF WillRetry(attempt, max_retries)
       THEN /\ sleeps' = Append(sleeps, delay)
            /\ delay' = next_delay(delay)
       ELSE UNCHANGED << sleeps, delay >>
    /\ pc' = "for"
    /\ UNCHANGED << copy, max_retries, attempt, last_error, cur, task_id, now,
                    deadline, queries, status, poll_end, submits, result,
                    raised >>
    /\ UNCHANGED << api_key, dlvars, exit_code, traceback >>


(***************************************************************************)
(* main: the API key, then try_generate, then the download.                *)
(***************************************************************************)
\* a variant that takes an empty string for a key
Truthy_accepts_empty(k) == k # NoKey

Truthy(k) == k # NoKey /\ k # ""

get_api_key(provided_key, env_key) ==
    IF Truthy(provided_key) THEN provided_key ELSE env_key

\* a variant that ends every run with status 0
Exit_always_zero(code, exc) ==
    /\ pc' = "exit"
    /\ exit_code' = 0
    /\ traceback' = exc

\* sys.exit(code), or the interpreter ending on an uncaught exception
Exit(code, exc) ==
    /\ pc' = "exit"
    /\ exit_code' = code
    /\ traceback' = exc

\* try_generate's frame is gone once main has its result or its exception
DropFrame ==
    /\ status' = "none"
    /\ poll_end' = "none"
    /\ attempt' = 0
    /\ delay' = InitialDelay
    /\ last_error' = NoExc

MainStart ==
    /\ pc = "main"
    /\ \E provided_key \in Keys, env_key \in Keys :
        /\ api_key' = get_api_key(provided_key, env_key)
        /\ IF ~Truthy(api_key')
           THEN Exit(1, NoExc)
           ELSE /\ pc' = "for"
                /\ UNCHANGED << exit_code, traceback >>
    /\ UNCHANGED << copy, max_retries, tryvars, dlvars >>

\* the URL main takes from the result; NoUrl when it finds none
result_url(c, r) ==
    IF c = "veo3-1"
    THEN IF r.url # NoUrl THEN r.url ELSE r.results_url
    ELSE r.results_url

MainResult ==
    /\ pc = "returned"
    /\ LET u == result_url(copy, result)
       IN  IF u # NoUrl
           THEN /\ video_url' = u
                /\ pc' = "download"
                /\ UNCHANGED << exit_code, traceback >>
           ELSE /\ Exit(1, IF copy = "veo3-1" THEN NoExc
                           ELSE Exc("KeyError", S_results, "no_url"))
                /\ UNCHANGED video_url
    /\ DropFrame
    /\ UNCHANGED << copy, max_retries, api_key, cur, task_id, now, deadline,
                    queries, submits, sleeps, result, raised, conn, offset,
                    chunks, downloaded, total, dl_raised, file >>

\* except RuntimeError / except TimeoutError around try_generate
MainFailed ==
    /\ pc = "raised"
    /\ Exit(1, IF raised.type \in {"RuntimeError", "TimeoutError"}
               THEN NoExc ELSE raised)
    /\ DropFrame
    /\ UNCHANGED << copy, max_retries, api_key, cur, task_id, now, deadline,
                    queries, submits, sleeps, result, raised, dlvars >>

(***************************************************************************)
(* The download.                                                           *)
(***************************************************************************)
\* urlopen(...): the response headers arrive, or the call raises
DownloadOpen ==
    /\ pc = "download"
    /\ \/ \E c \in Conns :
            /\ conn' = c
            /\ total' = IF copy = "veo3-1" /\ c.length_known
                        THEN Len(c.body) ELSE 0
            /\ pc' = "download_read"
            /\ UNCHANGED dl_raised
       \/ \E e \in OpenErrors :
            /\ dl_raised' = download_error(copy, e)
            /\ pc' = "download_raised"
            /\ UNCHANGED << conn, total >>
    /\ UNCHANGED << copy, max_retries, api_key, tryvars, video_url, offset,
                    chunks, downloaded, file, exit_code, traceback >>

\* one turn of download_video's while loop; the last one writes the file
DownloadRead ==
    /\ pc = "download_read"
    /\ copy = "veo3-1"
    /\ LET r == resp_read(conn, offset, chunk_size)
       IN  IF r.raised
           THEN /\ dl_raised' = download_error(copy, r.exc)
                /\ pc' = "download_raised"
                /\ UNCHANGED << offset, chunks, downloaded, file >>
           ELSE IF r.value = << >>
           THEN /\ file' = join(chunks)
                /\ pc' = "download_done"
                /\ UNCHANGED << offset, chunks, downloaded, dl_raised >>
           ELSE /\ chunks' = Append(chunks, r.value)
                /\ downloaded' = downloaded + Len(r.value)
                /\ offset' = offset + Len(r.value)
                /\ UNCHANGED << pc, file, dl_raised >>
    /\ UNCHANGED << copy, max_retries, api_key, tryvars, video_url, conn,
                    total, exit_code, traceback >>

\* the older copy: output_path.write_bytes(resp.read())
DownloadReadAll ==
    /\ pc = "download_read"
    /\ copy = "veo3.1"
    /\ LET r == resp_read_all(conn)
       IN  IF r.raised
           THEN /\ dl_raised' = r.exc
                /\ pc' = "download_raised"
                /\ UNCHANGED file
           ELSE /\ file' = r.value
                /\ pc' = "download_done"
                /\ UNCHANGED dl_raised
    /\ UNCHANGED << copy, max_retries, api_key, tryvars, video_url, conn,
                    offset, chunks, downloaded, total, exit_code, traceback >>

\* a variant that goes back to the download when it failed
MainDownloadFailed_retries ==
    /\ pc = "download_raised"
    /\ pc' = "download"
    /\ UNCHANGED << copy, max_retries, api_key, tryvars, dlvars, exit_code,
                    traceback >>

\* main's handler around the download
MainDownloadFailed ==
    /\ pc = "download_raised"
    /\ Exit(1, IF copy = "veo3.1" \/ dl_raised.type = "RuntimeError"
               THEN NoExc ELSE dl_raised)
    /\ UNCHANGED << copy, max_retries, api_key, tryvars, dlvars >>

MainFinish ==
    /\ pc = "download_done"
    /\ Exit(0, NoExc)
    /\ UNCHANGED << copy, max_retries, api_key, tryvars, dlvars >>

Next ==
    \/ MainStart
    \/ ForNext
    \/ SubmitTask
    \/ PollQuery
    \/ PollSleep
    \/ PollDeadline
    \/ Except
    \/ Backoff
    \/ MainResult
    \/ MainFailed
    \/ DownloadOpen
    \/ DownloadRead
    \/ DownloadReadAll
    \/ MainDownloadFailed
    \/ MainFinish

Spec == Init /\ [][Next]_vars

\* the places of try_generate's loop and of the cycle it runs
LoopPlaces == {"for", "submit", "poll", "poll_sleep", "except", "backoff"}

\* try_generate with the assumptions of a live run: every network call
\* returns or fails, every sleep ends, and the interpreter takes its next
\* step, so the program does not stay for ever at one place of the loop
\* (each step of Next from such a place moves to another place)
FairSpec ==
    /\ Init
    /\ [][Next]_vars
    /\ WF_pc(pc \in LoopPlaces /\ pc' \in LoopPlaces \cup {"returned", "raised"})

(***************************************************************************)
(* The Gemini client (plugin copy): http_post and query_with_retry.        *)
(***************************************************************************)
GRSAI_CHAT_URL ==
    << "h", "t", "t", "p", "s", ":", "/", "/", "g", "r", "s", "a", "i", "a", "p",
       "i", ".", "c", "o", "m", "/", "v", "1", "/", "c", "h", "a", "t", "/", "c",
       "o", "m", "p", "l", "e", "t", "i", "o", "n", "s" >>
S_Http429 ==
    << "H", "T", "T", "P", " ", "4", "2", "9", ":", " ", "t", "o", "o", " ", "m",
       "a", "n", "y", " ", "r", "e", "q", "u", "e", "s", "t", "s", ".", " ", "D",
       "e", "t", "a", "i", "l", "s", ":", " " >>
S_CouldNotConnect ==
    << "C", "o", "u", "l", "d", " ", "n", "o", "t", " ", "c", "o", "n", "n", "e",
       "c", "t", " ", "t", "o", " " >>
S_RequestTimedOutAfter ==
    << "R", "e", "q", "u", "e", "s", "t", " ", "t", "i", "m", "e", "d", " ", "o",
       "u", "t", " ", "a", "f", "t", "e", "r", " " >>
S_ExpectingValue ==
    << "E", "x", "p", "e", "c", "t", "i", "n", "g", " ", "v", "a", "l", "u", "e",
       ":", " ", "l", "i", "n", "e", " ", "1", " ", "c", "o", "l", "u", "m", "n",
       " ", "1", " ", "(", "c", "h", "a", "r", " ", "0", ")" >>
S_RemoteEndClosed ==
    << "R", "e", "m", "o", "t", "e", " ", "e", "n", "d", " ", "c", "l", "o", "s",
       "e", "d", " ", "c", "o", "n", "n", "e", "c", "t", "i", "o", "n", " ", "w",
       "i", "t", "h", "o", "u", "t", " ", "r", "e", "s", "p", "o", "n", "s", "e" >>
T_answer ==
    << "H", "e", "l", "l", "o" >>

REQUEST_TIMEOUT == 120
MAX_RETRIES == 3
RETRY_DELAY == 4
QueryDelayCap == 30

\* the transport's outcomes of http_post, as above, and two more:
\*   o.t = "bad_json"     : a 2xx answer whose body is not JSON
\*   o.t = "disconnected" : the server closes before it answers
http_post_gemini(url, o) ==
    CASE o.t = "response" -> Return(o.json)
      [] o.t = "bad_json" ->
            Raise(Exc("JSONDecodeError", S_ExpectingValue, "bad_json"))
      [] o.t = "http_error" ->
            IF o.status = 401
            THEN Raise(Exc("RuntimeError", S_Unauthorized401 \o o.body, "http401"))
            ELSE IF o.status = 429
            THEN Raise(Exc("TransientError", S_Http429 \o o.body, "http429"))
            ELSE IF o.status >= 500
            THEN Raise(Exc("TransientError",
                           S_HTTP \o str_int(o.status) \o S_Colon \o o.body,
                           "http5xx"))
            ELSE Raise(Exc("RuntimeError",
                           S_HTTP \o str_int(o.status) \o S_Colon \o o.body,
                           "http4xx"))
      [] o.t = "url_error" ->
            Raise(Exc("TransientError",
                      S_CouldNotConnect \o url \o S_Colon \o o.reason,
                      "url_error"))
      [] o.t = "timeout" ->
            Raise(Exc("TransientError",
                      S_RequestTimedOutAfter \o str_int(REQUEST_TIMEOUT) \o S_s,
                      "request_timeout"))
      [] OTHER ->
            Raise(Exc("RemoteDisconnected", S_RemoteEndClosed, "disconnected"))

\* the chat completions the service can send
ChatResponses ==
    {Response([choices |-> n, content |-> T_answer]) : n \in {0, 1}}

ChatOutcomes ==
    ChatResponses
    \cup TransportFaults
    \cup {[t |-> k, status |-> 0, body |-> << >>, reason |-> << >>,
           json |-> NoJson] : k \in {"bad_json", "disconnected"}}

\* what one call of http_post comes to
ChatAnswers == {http_post_gemini(GRSAI_CHAT_URL, o) : o \in ChatOutcomes}

\* a variant that retries every RuntimeError
query_handler_retries_every_error(e) ==
    IF e.type \in {"TransientError", "RuntimeError"} THEN "retry" ELSE "escape"

\* the except clauses of query_with_retry; TransientError is a subclass of
\* RuntimeError and its clause comes first
query_handler(e) ==
    IF e.type = "TransientError" THEN "retry"
    ELSE IF e.type = "RuntimeError" THEN "reraise"
    ELSE "escape"

\* delay = min(delay * 2, 30)
query_next_delay(d) == Min(d * 2, QueryDelayCap)

GeminiInit ==
    /\ copy = "gemini3pro"
    /\ max_retries = MAX_RETRIES
    /\ pc = "query_for"
    /\ api_key = "k"
    /\ video_url = NoUrl
    /\ conn = NoConn
    /\ offset = 0
    /\ chunks = << >>
    /\ downloaded = 0
    /\ total = 0
    /\ dl_raised = NoExc
    /\ file = OldFile
    /\ exit_code = Running
    /\ traceback = NoExc
    /\ attempt = 0
    /\ delay = RETRY_DELAY
    /\ last_error = Exc("RuntimeError", S_NoAttemptsMade, "no_attempts")
    /\ cur = NoExc
    /\ task_id = NoText
    /\ now = 0
    /\ deadline = 0
    /\ queries = 0
    /\ status = "none"
    /\ poll_end = "none"
    /\ submits = 0
    /\ sleeps = << >>
    /\ result = NoData
    /\ raised = NoExc

\* for attempt in range(1, MAX_RETRIES + 1): ... ; raise last_error
QueryForNext ==
    /\ pc = "query_for"
    /\ IF attempt < MAX_RETRIES
       THEN /\ attempt' = attempt + 1
            /\ pc' = "query_call"
            /\ UNCHANGED raised
       ELSE /\ raised' = last_error
            /\ pc' = "raised"
            /\ UNCHANGED attempt
    /\ UNCHANGED << copy, max_retries, api_key, delay, last_error, cur,
                    task_id, now, deadline, queries, status, poll_end, submits,
                    sleeps, result, dlvars, exit_code, traceback >>

\* return http_post(GRSAI_CHAT_URL, payload, api_key)
QueryCall ==
    /\ pc = "query_call"
    /\ \E r \in ChatAnswers :
          /\ queries' = queries + 1
          /\ now' = now + (IF r.raised /\ r.exc.kind = "request_timeout"
                           THEN REQUEST_TIMEOUT ELSE 0)
          /\ IF r.raised
             THEN /\ cur' = r.exc
                  /\ pc' = "query_except"
                  /\ UNCHANGED result
             ELSE /\ result' = r.value
                  /\ pc' = "returned"
                  /\ UNCHANGED cur
    /\ UNCHANGED << copy, max_retries, api_key, attempt, delay, last_error,
                    task_id, deadline, status, poll_end, submits, sleeps,
                    raised, dlvars, exit_code, traceback >>

\* except TransientError as e: last_error = e; if attempt < MAX_RETRIES:
\* time.sleep(delay); delay = min(delay * 2, 30)
\* except RuntimeError: raise
QueryExcept ==
    /\ pc = "query_except"
    /\ LET h == query_handler(cur)
       IN  IF h = "retry"
           THEN /\ last_error' = cur
                /\ IF attempt < MAX_RETRIES
                   THEN /\ sleeps' = Append(sleeps, delay)
                        /\ now' = now + delay
                        /\ delay' = query_next_delay(delay)
                   ELSE UNCHANGED << sleeps, now, delay >>
                /\ pc' = "query_for"
                /\ UNCHANGED raised
           ELSE /\ raised' = cur
                /\ pc' = "raised"
                /\ UNCHANGED << last_error, sleeps, now, delay >>
    /\ cur' = NoExc
    /\ UNCHANGED << copy, max_retries, api_key, attempt, task_id, deadline,
                    queries, status, poll_end, submits, result, dlvars,
                    exit_code, traceback >>

GeminiNext ==
    \/ QueryForNext
    \/ QueryCall
    \/ QueryExcept

GeminiSpec == GeminiInit /\ [][GeminiNext]_vars

(***************************************************************************)
(* Properties.                                                             *)
(***************************************************************************)
\* the letters a and b are equal up to case
SameLetter(a, b) ==
    \/ a = b
    \/ \E n \in 1..Len(UpperCase) :
           {a, b} = {UpperCase[n], LowerCase[n]}

\* kw occurs in msg at position i, case ignored
OccursAt(kw, msg, i) ==
    /\ i + Len(kw) - 1 <= Len(msg)
    /\ \A j \in 1..Len(kw) : SameLetter(msg[i + j - 1], kw[j])

\* the permanent markers, as the specification lists them
PermanentMarkers ==
    {KW_moderation, KW_nsfw, KW_invalid, KW_unauthorized, KW_forbidden,
     KW_not_exist}

MentionsPermanentMarker(msg) ==
    \E kw \in PermanentMarkers : \E i \in 1..Len(msg) : OccursAt(kw, msg, i)

\* nothing of the retry loop happens in this step
LoopOver ==
    /\ submits' = submits
    /\ sleeps' = sleeps
    /\ pc' \notin LoopPlaces

(* C1: in the newer copy, a cycle error that is a RuntimeError whose        *)
(* message holds a permanent keyword (case ignored) is re-raised at once:   *)
(* the handler leaves try_generate with that very error, without a backoff  *)
(* sleep, and after try_generate has raised there is no further submit,     *)
(* poll or sleep, whatever the attempt number.                              *)
C1_PermanentAbortsAtOnce ==
    [][ /\ ( /\ copy = "veo3-1"
             /\ pc = "except"
             /\ cur.type = "RuntimeError"
             /\ MentionsPermanentMarker(cur.msg) )
           => ( /\ pc' = "raised"
                /\ raised' = cur
                /\ submits' = submits
                /\ sleeps' = sleeps )
        /\ (pc = "raised" /\ copy = "veo3-1") => LoopOver
      ]_vars

\* the second attempt of three ends on a failed task whose error field
\* reads "NSFW content": try_generate has raised it after one sleep
C1_Witness ==
    /\ copy = "veo3-1"
    /\ pc = "raised"
    /\ max_retries = 3
    /\ attempt = 2
    /\ submits = 2
    /\ sleeps = << 5 >>
    /\ raised.kind = "generation_failed"
    /\ raised.msg = T_NSFW

(* C2: the k-th backoff sleep, the one before attempt k+1, lasts            *)
(* min(5 * 2^(k-1), 60), and every attempt after the first is preceded by   *)
(* exactly one such sleep.                                                  *)
C2_BackoffDelays ==
    /\ \A k \in 1..Len(sleeps) : sleeps[k] = Min(5 * 2^(k - 1), 60)
    /\ (pc \in LoopPlaces \ {"for"}) => Len(sleeps) = attempt - 1

\* five transient failures: the sleep before attempt 6 is capped at 60
C2_Witness ==
    /\ pc = "submit"
    /\ attempt = 6
    /\ sleeps = << 5, 10, 20, 40, 60 >>

(* C3: submit_task is called at most max_retries times.                     *)
C3_AttemptBound == submits <= max_retries /\ attempt <= max_retries

\* all three attempts of the default bound were made and failed
C3_Witness ==
    /\ max_retries = 3
    /\ submits = 3
    /\ pc = "raised"
    /\ raised.kind = "http5xx"

(* C4: a TimeoutError raised by a cycle (the poll deadline, or a timed-out  *)
(* request) is handled as transient whatever its message holds: the handler *)
(* records it and goes to the backoff without raising; the backoff sleeps   *)
(* and another attempt starts while attempts remain; once the bound is      *)
(* reached try_generate raises the timeout error of the last attempt.       *)
C4_TimeoutIsTransient ==
    [][ /\ (pc = "except" /\ cur.type = "TimeoutError")
           => ( /\ pc' = "backoff"
                /\ last_error' = cur
                /\ raised' = NoExc )
        /\ (pc = "backoff" /\ last_error.type = "TimeoutError")
           => ( /\ pc' = "for"
                /\ last_error' = last_error
                /\ sleeps' = IF attempt < max_retries
                             THEN Append(sleeps, delay) ELSE sleeps )
        /\ (pc = "for" /\ last_error.type = "TimeoutError")
           => IF attempt < max_retries
              THEN pc' = "submit" /\ attempt' = attempt + 1
              ELSE pc' = "raised" /\ raised' = last_error
      ]_vars

\* both attempts of two ran into the poll deadline; the message of the
\* timeout names the task "T1-invalid", which holds a permanent keyword
C4_Witness ==
    /\ copy = "veo3-1"
    /\ pc = "raised"
    /\ max_retries = 2
    /\ submits = 2
    /\ sleeps = << 5 >>
    /\ raised.kind = "poll_timeout"
    /\ MentionsPermanentMarker(raised.msg)

\* the outcome of the attempt that ended on the exception e
AttemptOutcome(e) ==
    IF e.type = "TimeoutError" THEN "Timeout"
    ELSE IF e.type = "RuntimeError"
    THEN IF MentionsPermanentMarker(e.msg) THEN "PermanentFailure"
         ELSE "TransientFailure"
    ELSE "Other"

\* an attempt after the first starts in this step
AnotherAttempt == pc = "for" /\ pc' = "submit" /\ attempt >= 1

(* C5, as stated: only a TransientFailure makes try_generate start another  *)
(* attempt; Success, PermanentFailure and Timeout each end the retry loop.  *)
C5_OnlyTransientRetries ==
    [][ /\ AnotherAttempt => AttemptOutcome(last_error) = "TransientFailure"
        /\ (pc = "except" /\ AttemptOutcome(cur) \in {"PermanentFailure", "Timeout"})
           => pc' = "raised"
        /\ pc = "returned" => LoopOver
      ]_vars

(* C5, amended: only a TransientFailure or a Timeout makes try_generate     *)
(* start another attempt; Success and PermanentFailure each end the retry   *)
(* loop.                                                                    *)
C5_OnlyTransientOrTimeoutRetries ==
    [][ /\ AnotherAttempt
           => AttemptOutcome(last_error) \in {"TransientFailure", "Timeout"}
        /\ (pc = "except" /\ AttemptOutcome(cur) = "PermanentFailure")
           => pc' = "raised"
        /\ pc = "returned" => LoopOver
      ]_vars

\* the first attempt timed out and the second one has started
C5_Witness ==
    /\ pc = "submit"
    /\ attempt = 2
    /\ last_error.type = "TimeoutError"
    /\ sleeps = << 5 >>

\* the statuses that end the polling
TerminalStatuses == {"succeeded", "failed"}

(* C6: poll_result returns a payload exactly when the status query it has   *)
(* just made read "succeeded", and the payload is the one that query read;  *)
(* a query that reads any status other than succeeded or failed leads to    *)
(* the sleep and from there back to the loop test, never to a return.       *)
C6_ReturnsIffSucceeded ==
    [][ /\ pc' = "returned"
           <=> (pc = "poll" /\ status' = "succeeded")
        /\ pc' = "returned"
           => (result'.status = "succeeded" /\ raised' = NoExc)
        /\ (pc = "poll" /\ status' \notin TerminalStatuses \cup {"none"})
           => (pc' = "poll_sleep" /\ result' = result /\ cur' = cur)
        /\ pc = "poll_sleep" => (pc' = "poll" /\ result' = NoData)
      ]_vars

\* a query that was in flight when the deadline passed read "succeeded":
\* poll_result has returned, after queries that read a non-terminal status
C6_Witness ==
    /\ pc = "returned"
    /\ status = "succeeded"
    /\ result.status = "succeeded"
    /\ poll_end = "after_deadline"

\* the time since poll_result computed its deadline
Elapsed == now - (deadline - POLL_TIMEOUT)

(* C7, as stated: poll_result raises its timeout if and only if the time    *)
(* elapsed has passed the deadline without a query having read a terminal   *)
(* status.  Stated of the state in which poll_result has just ended.        *)
C7_TimeoutIffDeadlinePassed ==
    poll_end # "none"
    => ( (pc = "except" /\ cur.kind = "poll_timeout")
         <=> (poll_end = "after_deadline" /\ status \notin TerminalStatuses) )

(* C7, amended: poll_result raises its timeout exactly when its loop test   *)
(* finds that POLL_TIMEOUT or more has elapsed since it set the deadline,   *)
(* and then no query has read a terminal status; a query that is under way  *)
(* when the deadline passes still ends poll_result by its own result or     *)
(* error.                                                                   *)
C7_TimeoutAtLoopTest ==
    [][ /\ pc = "poll"
           => ( (pc' = "except" /\ cur'.kind = "poll_timeout")
                <=> Elapsed >= POLL_TIMEOUT )
        /\ cur'.kind = "poll_timeout"
           => ( /\ pc = "poll"
                /\ status' \notin TerminalStatuses
                /\ poll_end' = "after_deadline"
                /\ result' = NoData )
      ]_vars

\* the loop test has found the deadline passed on the first attempt
C7_Witness ==
    /\ pc = "except"
    /\ attempt = 1
    /\ cur.type = "TimeoutError"
    /\ cur.kind = "poll_timeout"
    /\ poll_end = "after_deadline"
    /\ status = "none"

(* C8: when a status query of a cycle reads "succeeded", try_generate       *)
(* returns the data payload the service sent, url and credits_cost          *)
(* included, and stops: nothing is raised and no submit, poll or backoff    *)
(* sleep follows.                                                           *)
C8_SuccessReturnsPayload ==
    [][ /\ (pc = "poll" /\ status' = "succeeded")
           => ( /\ pc' = "returned"
                /\ result' \in SucceededPayloads
                /\ raised' = NoExc
                /\ submits' = submits
                /\ sleeps' = sleeps )
        /\ result # NoData => (LoopOver /\ result' = result)
      ]_vars

\* the scenario of the specification: one submit, and try_generate has
\* returned the payload with url https://x/video.mp4 and cost 5
C8_Witness ==
    /\ pc = "returned"
    /\ attempt = 1
    /\ submits = 1
    /\ sleeps = << >>
    /\ result.url = "https://x/video.mp4"
    /\ result.credits_cost = 5
    /\ result.progress = 100
    /\ raised = NoExc

(* C9: whenever download_video has returned without raising, the file at    *)
(* the destination holds every byte of the served body, in order, and       *)
(* nothing else; its length is the Content-Length when one was given.       *)
C9_ByteIdentical ==
    (copy = "veo3-1" /\ pc = "download_done")
    => ( /\ file = conn.body
         /\ total # 0 => Len(file) = total )

\* the transfer failed: the connection ended before the whole body came, or
\* the download raised
TransferFailed == conn.delivered < Len(conn.body) \/ dl_raised # NoExc

(* C10: on a network or timeout failure during the download, also one that  *)
(* comes after some chunks were received, the destination is as it was      *)
(* before the call; it is written only once the whole body has been read.   *)
C10_NoPartialFile ==
    /\ (pc \in {"download_read", "download_raised", "download_done"}
            /\ TransferFailed)
       => file = OldFile
    /\ file # OldFile => (pc = "download_done" /\ file = conn.body)

\* no call has gone out to the service or to the video host
NoNetworkActivity ==
    /\ submits = 0
    /\ status = "none"
    /\ poll_end = "none"
    /\ result = NoData
    /\ conn = NoConn
    /\ dl_raised = NoExc
    /\ file = OldFile

(* C11: when neither --api-key nor GRSAI_API_KEY gives a non-empty value,   *)
(* main ends with exit code 1 at once, and no submit, poll or download call *)
(* is made in that run.                                                     *)
C11_NoKeyNoNetwork ==
    (pc # "main" /\ api_key \in {NoKey, ""})
    => ( /\ pc = "exit"
         /\ exit_code = 1
         /\ traceback = NoExc
         /\ NoNetworkActivity )

\* the flag was not given and the variable is set to the empty string
C11_Witness ==
    /\ pc = "exit"
    /\ api_key = ""
    /\ exit_code = 1
    /\ submits = 0

\* what main needs to end well: a returned payload, a URL found in it, and
\* a download that wrote the file without raising
RunSucceeded ==
    /\ result.status = "succeeded"
    /\ raised = NoExc
    /\ video_url # NoUrl
    /\ dl_raised = NoExc
    /\ file # OldFile

C13_OneSubmitPerAttempt ==
    [][ /\ pc = "submit"
           => ( /\ submits = attempt - 1
                /\ submits' = attempt
                /\ pc' = "poll" => task_id' = TaskId(attempt) )
        /\ pc \in {"poll", "poll_sleep"}
           => ( /\ submits = attempt
                /\ queried_id = TaskId(attempt)
                /\ submits' = submits
                /\ task_id' \in {task_id, NoText} )
        /\ pc \in {"except", "backoff", "for"}
           => ( /\ task_id = NoText
                /\ submits = attempt
                /\ submits' = submits )
        /\ AnotherAttempt => pc' = "submit"
      ]_vars

\* the third attempt polls the handle of the third submit
C13_Witness ==
    /\ pc = "poll_sleep"
    /\ attempt = 3
    /\ submits = 3
    /\ queries = 2
    /\ queried_id = TaskId(3)
    /\ queried_id # TaskId(2)

(* C14: when the cycle of attempt n fails transiently, the handler records  *)
(* the error; if n < max_retries the driver sleeps for the current delay,   *)
(* doubles the delay up to 60 and starts attempt n+1; if n = max_retries it *)
(* does not sleep and raises the error of that last attempt.                *)
C14_TransientRetryOrAbort ==
    [][ /\ (pc = "except" /\ AttemptOutcome(cur) = "TransientFailure")
           => ( /\ pc' = "backoff"
                /\ last_error' = cur
                /\ raised' = NoExc
                /\ sleeps' = sleeps )
        /\ (pc = "backoff" /\ AttemptOutcome(last_error) = "TransientFailure")
           => ( /\ pc' = "for"
                /\ last_error' = last_error
                /\ attempt' = attempt
                /\ IF attempt < max_retries
                   THEN /\ sleeps' = Append(sleeps, delay)
                        /\ delay' = Min(2 * delay, 60)
                   ELSE /\ sleeps' = sleeps
                        /\ delay' = delay )
        /\ (pc = "for" /\ AttemptOutcome(last_error) = "TransientFailure"
                /\ attempt >= 1)
           => ( /\ sleeps' = sleeps
                /\ IF attempt < max_retries
                   THEN pc' = "submit" /\ attempt' = attempt + 1
                   ELSE pc' = "raised" /\ raised' = last_error )
      ]_vars

\* three attempts: two sleeps, none after the third, whose network error
\* is the one raised
C14_Witness ==
    /\ pc = "raised"
    /\ max_retries = 3
    /\ attempt = 3
    /\ sleeps = << 5, 10 >>
    /\ delay = 20
    /\ raised.kind = "url_error"
    /\ raised = last_error

\* the connection-level failures of a call: urllib's URLError
NetworkFaults == {o \in TransportFaults : o.t = "url_error"}

\* what a status query that meets a network fault comes to, in either copy
NetworkFaultAnswers == {poll_query(c, o) : c \in Copies, o \in NetworkFaults}

(* C15: a network error on a status query is not absorbed: the query ends   *)
(* poll_result with that error, without a sleep or a further query of the   *)
(* handle, and the error reaches try_generate's handler, which retries the  *)
(* whole cycle or lets the error out.                                       *)
C15_PollNetworkErrorPropagates ==
    [][ /\ pc = "poll"
           => \A q \in NetworkFaultAnswers :
                  q.act = "raise" /\ q.exc.kind = "url_error"
        /\ (pc = "poll" /\ cur'.kind = "url_error")
           => ( /\ pc' = "except"
                /\ poll_end' # "none"
                /\ task_id' = NoText
                /\ result' = NoData
                /\ sleeps' = sleeps )
        /\ (pc = "except" /\ cur.kind = "url_error" /\ poll_end # "none")
           => ( /\ task_id' = NoText
                /\ \/ pc' = "backoff" /\ last_error' = cur
                   \/ pc' = "raised" /\ raised' = cur )
      ]_vars

\* a query of the first attempt met a network error before the deadline
C15_Witness ==
    /\ pc = "except"
    /\ attempt = 1
    /\ cur.kind = "url_error"
    /\ poll_end = "before_deadline"
    /\ status = "none"
    /\ task_id = NoText

\* the newer copy handles a network failure (URLError) or a rate limit
\* (HTTP 429)
HandlesNetworkOrRateLimit ==
    /\ copy = "veo3-1"
    /\ pc = "except"
    /\ cur.kind \in {"url_error", "http429"}

(* C16, as stated: in the newer copy a NetworkFailure (from URLError) or a  *)
(* RateLimited error (HTTP 429) is handled as transient whatever its reason *)
(* text or response body says: it is never re-raised as permanent.          *)
C16_NetworkAndRateLimitAlwaysTransient ==
    [][ HandlesNetworkOrRateLimit => (pc' = "backoff" /\ raised' = NoExc)
      ]_vars

(* C16, amended: in the newer copy a NetworkFailure or RateLimited error is *)
(* handled as transient unless its message, which embeds the reason text or *)
(* the response body, holds a permanent keyword; then it is re-raised at    *)
(* once like any permanent error.                                           *)
C16_NetworkAndRateLimitByKeyword ==
    [][ HandlesNetworkOrRateLimit
        => ( /\ cur.type = "RuntimeError"
             /\ IF MentionsPermanentMarker(cur.msg)
                THEN pc' = "raised" /\ raised' = cur
                ELSE pc' = "backoff" /\ raised' = NoExc /\ last_error' = cur
             /\ sleeps' = sleeps )
      ]_vars

\* a 429 whose body reads "NSFW content" ended the run on the first of
\* three attempts
C16_Witness ==
    /\ copy = "veo3-1"
    /\ pc = "raised"
    /\ max_retries = 3
    /\ attempt = 1
    /\ sleeps = << >>
    /\ raised.kind = "http429"
    /\ raised.msg = S_RateLimited429 \o T_NSFW

MentionsTransientKeyword(msg) ==
    \E k \in 1..Len(TRANSIENT_KEYWORDS) : \E i \in 1..Len(msg) :
        OccursAt(TRANSIENT_KEYWORDS[k], msg, i)

\* the handler has a RemoteRejected error: a response with code # 0
HandlesRemoteRejected == pc = "except" /\ cur.kind = "remote_rejected"

(* C17, as stated: a RemoteRejected error (a submit or poll response with   *)
(* code # 0) is fatal, try_generate aborts on it without retrying, unless   *)
(* its message holds one of the transient keywords.                         *)
C17_RemoteRejectedFatalUnlessTransient ==
    [][ HandlesRemoteRejected
        => IF MentionsTransientKeyword(cur.msg)
           THEN pc' = "backoff" /\ raised' = NoExc
           ELSE pc' = "raised" /\ raised' = cur
      ]_vars

(* C17, amended: a RemoteRejected error is fatal only when its message      *)
(* holds a permanent keyword; otherwise try_generate handles it as          *)
(* transient and retries while attempts remain.  The transient keywords are *)
(* not consulted.                                                           *)
C17_RemoteRejectedFatalIfPermanent ==
    [][ HandlesRemoteRejected
        => ( /\ cur.type = "RuntimeError"
             /\ sleeps' = sleeps
             /\ IF MentionsPermanentMarker(cur.msg)
                THEN pc' = "raised" /\ raised' = cur
                ELSE pc' = "backoff" /\ raised' = NoExc /\ last_error' = cur )
      ]_vars

\* the first submit was rejected with msg "busy", which holds no keyword of
\* either list, and the second attempt has started
C17_Witness ==
    /\ pc = "submit"
    /\ attempt = 2
    /\ sleeps = << 5 >>
    /\ last_error.kind = "remote_rejected"
    /\ last_error.msg = T_busy
    /\ ~MentionsTransientKeyword(last_error.msg)

(* C18: an HTTP 401 on the submit call or on a status query is not retried: *)
(* try_generate leaves with that error at its first occurrence, without a   *)
(* backoff sleep or a further call, whatever the attempt number and the     *)
(* response body, and the run ends with exit code 1.                        *)
C18_UnauthorizedNotRetried ==
    [][ /\ (pc = "except" /\ cur.kind = "http401")
           => ( /\ pc' = "raised"
                /\ raised' = cur
                /\ sleeps' = sleeps
                /\ submits' = submits )
        /\ (pc = "raised" /\ raised.kind = "http401")
           => ( /\ LoopOver
                /\ pc' = "exit"
                /\ exit_code' = 1 )
        /\ AnotherAttempt => last_error.kind # "http401"
      ]_vars

\* the second attempt of three met a 401 whose body reads "busy"
C18_Witness ==
    /\ copy = "veo3-1"
    /\ pc = "raised"
    /\ max_retries = 3
    /\ attempt = 2
    /\ submits = 2
    /\ sleeps = << 5 >>
    /\ raised.kind = "http401"
    /\ raised.msg = S_Unauthorized401 \o T_busy

\* the places of main from the download on
DownloadPlaces ==
    {"download", "download_read", "download_raised", "download_done"}

(* C19: the download starts only from a returned success payload in which   *)
(* main found a URL, it is opened at most once, a download that raised      *)
(* leads to the exit with code 1 and to nothing else, no step goes from the *)
(* download back into the retry loop, and after try_generate has raised no  *)
(* download is made.                                                        *)
C19_DownloadOnceAfterSuccess ==
    [][ /\ (pc' = "download" /\ pc # "download")
           => ( /\ pc = "returned"
                /\ result.status = "succeeded"
                /\ raised = NoExc
                /\ video_url' # NoUrl
                /\ video_url' \in {result.url, result.results_url}
                /\ conn = NoConn
                /\ dl_raised = NoExc )
        /\ pc = "download" => (conn = NoConn /\ dl_raised = NoExc)
        /\ pc \in DownloadPlaces
           => ( /\ pc' \in (DownloadPlaces \ {"download"}) \cup {"exit"}
                /\ LoopOver )
        /\ pc = "download_raised"
           => (pc' = "exit" /\ exit_code' = 1 /\ file' = file)
        /\ raised # NoExc => pc' \notin DownloadPlaces
      ]_vars

\* the one download of the run was refused by the video host and the run
\* has ended
C19_Witness ==
    /\ pc = "exit"
    /\ exit_code = 1
    /\ submits = 1
    /\ video_url = "https://x/nested.mp4"
    /\ dl_raised # NoExc
    /\ conn = NoConn
    /\ file = OldFile

\* a field of the payload as text: empty when the service left it out
FieldText(x) == IF x = NoText THEN << >> ELSE x

\* the failure_reason and error fields of the payload d, put together with
\* a blank between them
JoinedReason(d) ==
    FieldText(d.failure_reason) \o << " " >> \o FieldText(d.error)

\* t is s without its leading and trailing whitespace
IsTrimOf(t, s) ==
    \E i \in 1..(Len(s) + 1) : \E k \in 0..Len(s) :
        /\ t = SubSeq(s, i, k)
        /\ \A n \in 1..(i - 1) : IsSpace(s[n])
        /\ \A n \in (k + 1)..Len(s) : IsSpace(s[n])
        /\ i <= k => (~IsSpace(s[i]) /\ ~IsSpace(s[k]))

\* the trimmed forms of s (there is one)
Trims(s) ==
    {u \in {SubSeq(s, i, k) : i \in 1..(Len(s) + 1), k \in 0..Len(s)} :
        IsTrimOf(u, s)}

\* the reasons of the failed payloads, an empty reason replaced by the
\* text unknown
FailureReasons(unknown) ==
    {IF t = << >> THEN unknown ELSE t :
        t \in UNION {Trims(JoinedReason(d)) : d \in FailedPayloads}}

\* with the replacement text the claim names, and with the one of the
\* newer copy
ReasonsWithUnknownFailure == FailureReasons(S_UnknownFailure)
ReasonsWithGenFailedUnknown == FailureReasons(S_GenFailedUnknown)

\* a status query has just read "failed"
ReadsFailed == pc = "poll" /\ status' = "failed"

(* C20, as stated: on a query reporting "failed", poll_result raises a      *)
(* generation-failed error whose reason is the failure_reason and error     *)
(* fields put together and trimmed, an empty reason replaced by "unknown    *)
(* failure"; try_generate classifies this reason by keyword.                *)
C20_FailureReasonUnknownFailure ==
    [][ /\ ReadsFailed
           => ( /\ pc' = "except"
                /\ cur'.type = "RuntimeError"
                /\ cur'.msg \in ReasonsWithUnknownFailure )
        /\ (pc = "except" /\ cur.kind = "generation_failed")
           => IF MentionsPermanentMarker(cur.msg)
              THEN pc' = "raised" ELSE pc' = "backoff"
      ]_vars

\* the reasons with the text that stands for an empty reason in each copy
ReasonsPerCopy ==
    IF copy = "veo3.1" THEN ReasonsWithUnknownFailure
    ELSE ReasonsWithGenFailedUnknown

(* C20, amended: as stated, but the empty reason is replaced by "unknown    *)
(* failure" in src/veo3.1 and by "Generation failed with unknown reason" in *)
(* src/veo3-1.                                                              *)
C20_FailureReasonPerCopy ==
    [][ /\ ReadsFailed
           => ( /\ pc' = "except"
                /\ cur'.type = "RuntimeError"
                /\ cur'.kind = "generation_failed"
                /\ cur'.msg \in ReasonsPerCopy )
        /\ (pc = "except" /\ cur.kind = "generation_failed")
           => IF MentionsPermanentMarker(cur.msg)
              THEN pc' = "raised" /\ raised' = cur
              ELSE pc' = "backoff" /\ last_error' = cur
      ]_vars

\* the newer copy read a failed status with neither field set
C20_Witness ==
    /\ copy = "veo3-1"
    /\ pc = "except"
    /\ status = "failed"
    /\ cur.kind = "generation_failed"
    /\ cur.msg = S_GenFailedUnknown
    /\ cur.msg # S_UnknownFailure

\* the most status queries one poll_result call can make: ceil(600 / 5)
MaxQueries == (POLL_TIMEOUT + POLL_INTERVAL - 1) \div POLL_INTERVAL

(* C21: within one poll_result call every status query is followed by      *)
(* exactly one sleep of POLL_INTERVAL before the next one, no query starts  *)
(* once POLL_TIMEOUT has elapsed since the poll began, and so at most       *)
(* ceil(600 / 5) = 120 queries are made per attempt.                        *)
C21_PollCadence ==
    [][ /\ (pc = "poll" /\ queries' = queries + 1)
           => ( /\ Elapsed < POLL_TIMEOUT
                /\ pc' = "poll_sleep"
                /\ now' >= now )
        /\ (pc = "poll" /\ status' # "none") => Elapsed < POLL_TIMEOUT
        /\ pc = "poll_sleep"
           => ( /\ pc' = "poll"
                /\ now' = now + POLL_INTERVAL
                /\ queries' = queries )
        /\ pc \in {"poll", "poll_sleep"}
           => ( /\ queries <= MaxQueries
                /\ queries' <= MaxQueries
                /\ Elapsed >= POLL_INTERVAL * (IF pc = "poll" THEN queries
                                               ELSE queries - 1) )
      ]_vars

\* every query was answered at once with a non-terminal status: the 120th
\* query started at 595
C21_Witness ==
    /\ pc = "poll_sleep"
    /\ queries = 120
    /\ queries = MaxQueries
    /\ now = 595
    /\ deadline = 600

\* the steps one attempt can still take, at most: a submit, two per status
\* query that is left, the deadline test, the handler and the backoff
StepsOfAttempt == 2 * MaxQueries + 6

PhaseMeasure ==
    CASE pc = "submit" -> 2 * MaxQueries + 4
      [] pc = "poll" -> 2 * (MaxQueries - queries) + 3
      [] pc = "poll_sleep" -> 2 * (MaxQueries - queries) + 4
      [] pc = "except" -> 2
      [] pc = "backoff" -> 1
      [] OTHER -> 0

\* a bound on the steps try_generate can still take
Measure == (max_retries - attempt) * StepsOfAttempt + PhaseMeasure

\* a step of the loop stays in the loop or ends try_generate, and a step
\* that stays lowers the measure
LoopStepLowersMeasure ==
    pc \in LoopPlaces
    => ( /\ pc' \in LoopPlaces \cup {"returned", "raised"}
         /\ pc' \in LoopPlaces => (Measure' < Measure /\ Measure' >= 0) )

(* C22: from its first attempt on, try_generate always comes to return a    *)
(* payload or to raise an error, whatever the service answers, given that   *)
(* every call ends and every sleep is over in finite time: each of its      *)
(* steps lowers a bound on the steps that are left, so it can neither poll  *)
(* nor retry for ever.                                                      *)
C22_Terminates ==
    /\ [][LoopStepLowersMeasure]_vars
    /\ (pc = "for") ~> (pc \in {"returned", "raised"})

\* the longest run: each of six attempts polled until the deadline
C22_Witness ==
    /\ pc = "raised"
    /\ max_retries = 6
    /\ attempt = 6
    /\ submits = 6
    /\ Len(sleeps) = 5
    /\ raised.kind = "poll_timeout"

\* the faults of the transport, by the place that raised them, with what the
\* except clauses of try_generate decide on them in the newer copy
TransportFaultDecisions ==
    {<< http_post_new(u, o).exc.kind, handler(http_post_new(u, o).exc) >> :
        u \in {GRSAI_VIDEO_URL, GRSAI_RESULT_URL}, o \in TransportFaults}

TransportFaultKinds == {d[1] : d \in TransportFaultDecisions}

(* C23: the two copies are the same retry driver: a clause of try_generate  *)
(* covers every exception an attempt raises, on a fault of the transport    *)
(* (HTTP error status, connection error, socket timeout) either copy takes  *)
(* a decision the newer copy takes on a fault of that kind, and so          *)
(* try_generate only ever ends by raising a RuntimeError or a TimeoutError. *)
C23_CopiesEquivalent ==
    /\ pc = "except" => handler(cur) # "escape"
    /\ (pc = "except" /\ cur.kind \in TransportFaultKinds)
       => << cur.kind, handler(cur) >> \in TransportFaultDecisions
    /\ pc = "raised" => raised.type \in {"RuntimeError", "TimeoutError"}

\* the errors query_with_retry is said to retry and to re-raise, by the
\* place that raised them
TransientKinds == {"http429", "http5xx", "url_error", "request_timeout"}
PermanentKinds == {"http401", "http4xx"}

\* the sleeps between MAX_RETRIES calls: 4, then 8
RetrySleeps ==
    [i \in 1..(MAX_RETRIES - 1) |-> Min(RETRY_DELAY * 2 ^ (i - 1), QueryDelayCap)]

\* a step of query_with_retry's handler
QueryHandlerStep ==
    pc = "query_except"
    => /\ cur.kind \in TransientKinds <=> cur.type = "TransientError"
       /\ cur.kind \in PermanentKinds => cur.type = "RuntimeError"
       /\ queries' = queries
       /\ IF cur.type = "TransientError"
          THEN /\ last_error' = cur
               /\ pc' = "query_for"
               /\ sleeps' = IF queries < MAX_RETRIES
                            THEN Append(sleeps, RetrySleeps[queries])
                            ELSE sleeps
          ELSE /\ pc' = "raised"
               /\ raised' = cur
               /\ sleeps' = sleeps
               /\ now' = now

\* once query_with_retry has returned or raised, nothing more happens
QueryEndedStep == pc \notin {"raised", "returned"}

(* C24: query_with_retry makes at most MAX_RETRIES = 3 calls; it calls      *)
(* again only after a TransientError (HTTP 429, HTTP >= 500, connection     *)
(* error, request timeout), having slept 4 before the second call and 8     *)
(* before the third, and does not sleep after the third; any other          *)
(* RuntimeError (HTTP 401, another 4xx) is raised at once with no sleep and *)
(* no further call; when all three calls failed transiently the last        *)
(* TransientError is raised.                                                *)
C24_QueryWithRetry ==
    /\ [](queries <= MAX_RETRIES)
    /\ [](Len(sleeps) <= MAX_RETRIES - 1
          /\ sleeps = SubSeq(RetrySleeps, 1, Len(sleeps)))
    /\ [](pc = "query_call"
          => /\ queries = attempt - 1
             /\ Len(sleeps) = queries
             /\ queries > 0 => last_error.type = "TransientError")
    /\ [](pc \in {"query_except", "returned"}
          => queries = attempt /\ Len(sleeps) = queries - 1)
    /\ [](pc = "raised"
          => IF raised.type = "TransientError"
             THEN /\ queries = MAX_RETRIES
                  /\ sleeps = RetrySleeps
                  /\ raised = last_error
             ELSE Len(sleeps) = queries - 1)
    /\ [][QueryHandlerStep]_vars
    /\ [][QueryEndedStep]_vars

\* three calls failed transiently: the third TransientError is raised after
\* the sleeps 4 and 8
C24_Witness ==
    /\ copy = "gemini3pro"
    /\ pc = "raised"
    /\ raised.type = "TransientError"
    /\ raised.kind = "request_timeout"
    /\ queries = 3
    /\ sleeps = << 4, 8 >>
    /\ now = 3 * REQUEST_TIMEOUT + 12
====
